---- MODULE Spec2Model ----
(***************************************************************************)
(* ASSURE CODE: the regulation-impact-to-spec-patch pipeline.              *)
(*                                                                         *)
(* The Version Store (spec_versions, spec_diffs, regulation_impact_log),   *)
(* the event bus, and the spec-patch jobs that run patchSpec               *)
(* (spec-patcher.service.ts) with the queue's retry policy.  Every await   *)
(* of patchSpec that reads or writes shared state is one action.           *)
(***************************************************************************)
EXTENDS Integers, FiniteSets, Sequences, TLC

VARIABLES
    spec_versions,          \* table spec_versions: id -> row
    spec_diffs,             \* table spec_diffs: set of ClauseDiff audit rows
    regulation_impact_log,  \* table regulation_impact_log: set of rows
    events,                 \* messages published on the bus
    jobs,                   \* spec-patch queue: job -> job record (data + position in patchSpec)
    consumer,               \* the regulation consumer: its topic, its offset, the handling in progress
    analysis,               \* one call of findAffectedSpecs: its inputs and its outcome
    pr_queue,               \* github-pr queue: the PR jobs and their attempts
    github,                 \* the workspace's repository: its branches and pull requests
    compliance_jobs,        \* table compliance_jobs: jobId -> outcome record
    compliance_queue,       \* compliance queue: jobId -> the queue's job (state, attempts)
    workspaces,             \* the row of one workspace: plan, monthly_report_count
    requests,               \* submitJob calls in progress: caller -> position
    kafka,                  \* kafka.client.ts: _producer, _consumers and the calls in progress
    ingestion               \* one call of ingestRegulations: its input and its result

\* The compliance job flow, and the clients and tools around the pipeline.
compliance == <<compliance_jobs, compliance_queue, workspaces, requests>>
infrastructure == <<github, kafka, ingestion>>

vars == <<spec_versions, spec_diffs, regulation_impact_log, events, jobs, consumer, analysis,
          pr_queue, compliance, infrastructure>>

----------------------------------------------------------------------------
(* Bounds *)

MaxDrafts == 1      \* first versions created by the draft-generation flow

(* Program constants *)

Attempts == 3       \* defaultJobOptions.attempts

NULL == 0           \* parent_id of a first version; an unset id
Jobs == {1, 2}      \* the spec-patch jobs: two, so that they can race
Regulations == <<"GDPR Article 32", "SOC2 CC6.7">>

----------------------------------------------------------------------------
(* Data: module payloads, clause paths, generated content *)

\* ModuleKey.  Two of the five keys are modelled; the code never treats any
\* key specially, the other three behave like these two.
ModuleKeys == {"master_specification", "security_blueprint"}

Values == {"AES-128", "AES-256"}
Fields == {"algorithm"}                   \* the fields a module payload has
Paths == {"algorithm", "keyRotation"}     \* clause paths a generated diff may name
Undefined == "undefined"

ModulePayloads == [Fields -> Values]

\* The value a clause path addresses in a module payload (undefined if none).
ValueAt(moduleData, clausePath) ==
    IF clausePath \in DOMAIN moduleData THEN moduleData[clausePath] ELSE Undefined

\* `${regulation.framework} ${regulation.article}` of the regulation a job carries.
RegulationOf(j) == jobs[j].regulation

\* Generated text: parsed is FALSE when JSON.parse throws on it, and value is
\* what JSON.parse returns otherwise.
\* array is FALSE when the parsed value is not an array (it has no map).
UnparsableArray == [parsed |-> FALSE, array |-> FALSE, value |-> {}]
UnparsableModule == [parsed |-> FALSE, array |-> FALSE, value |-> [f \in Fields |-> Undefined]]
Parsed(v) == [parsed |-> TRUE, array |-> TRUE, value |-> v]
NotAnArray == [parsed |-> TRUE, array |-> FALSE, value |-> {}]
NoText == [parsed |-> FALSE, array |-> TRUE, value |-> {}]    \* no answer yet

\* A key the classifier may name that is no ModuleKey.
UnknownKey == "privacy_policy"

\* An entry of a generated array that has none of the diff fields.
MalformedDiff == [clausePath |-> Undefined, before |-> Undefined, after |-> Undefined]

\* An array of at most one diff {clausePath, before, after}.
GeneratedDiffs == [clausePath : Paths, before : Values, after : Values]

\* What the external capabilities may answer, per specification:
\*   classifier: to the classifier prompt;  diffs: to the diff prompt of one
\*   module;  apply: to the apply prompt of one module;  diffErrors, logErrors:
\*   whether the write to spec_diffs, to regulation_impact_log, fails.
\* Core keeps the generated content to one representative of each outcome, so
\* that two racing jobs with all their attempts can be explored.
Core ==
    [classifier |-> {Parsed({}), Parsed({"security_blueprint"})},
     diffs |-> {Parsed({}),
                Parsed({[clausePath |-> "algorithm", before |-> "AES-128",
                         after |-> "AES-256"]})},
     apply |-> {Parsed([f \in Fields |-> "AES-256"]), UnparsableModule},
     diffErrors |-> BOOLEAN,
     logErrors |-> {FALSE}]

\* Content draws the generated content from everything the model can express.
Content ==
    [classifier |-> {Parsed(k) : k \in SUBSET ModuleKeys} \cup {UnparsableArray}
                       \cup {Parsed({UnknownKey}), Parsed({"security_blueprint", UnknownKey})},
     diffs |-> {UnparsableArray, NotAnArray, Parsed({}), Parsed({MalformedDiff})}
                  \cup {Parsed({d}) : d \in {g \in GeneratedDiffs : g.after # g.before}},
     apply |-> {Parsed(m) : m \in ModulePayloads} \cup {UnparsableModule},
     diffErrors |-> BOOLEAN,
     logErrors |-> BOOLEAN]

----------------------------------------------------------------------------
(* diffEngine *)

FallbackModules_MasterOnly == {"master_specification"}
FallbackModules == {"master_specification", "security_blueprint"}

detectAffectedModules(text) ==
    IF text.parsed THEN text.value ELSE FallbackModules

\* { ...d, module, regulationTrigger }: what a generated diff says of its
\* module and its regulation is overwritten.
generateModuleDiffs_ContentWins(regulationTrigger, moduleKey, text) ==
    IF text.parsed /\ text.array
    THEN {[module |-> IF "module" \in DOMAIN d THEN d.module ELSE moduleKey,
           clausePath |-> d.clausePath,
           before |-> d.before, after |-> d.after,
           regulationTrigger |-> IF "regulationTrigger" \in DOMAIN d
                                 THEN d.regulationTrigger ELSE regulationTrigger]
            : d \in text.value}
    ELSE {}

generateModuleDiffs(regulationTrigger, moduleKey, text) ==
    IF text.parsed /\ text.array
    THEN {[module |-> moduleKey, clausePath |-> d.clausePath,
           before |-> d.before, after |-> d.after,
           regulationTrigger |-> regulationTrigger] : d \in text.value}
    ELSE {}

applyDiffsToSpec_Everywhere(modules, diffs, resp) ==
    [key \in DOMAIN modules |->
        IF \E k \in DOMAIN resp : resp[k].parsed
        THEN resp[CHOOSE k \in DOMAIN resp : resp[k].parsed].value
        ELSE modules[key]]

applyDiffsToSpec_AllOrNothing(modules, diffs, resp) ==
    [key \in DOMAIN modules |->
        IF key \in {d.module : d \in diffs} /\ \A k \in DOMAIN resp : resp[k].parsed
        THEN resp[key].value
        ELSE modules[key]]

\* resp: the answer for each module that has diffs.
applyDiffsToSpec(modules, diffs, resp) ==
    [key \in DOMAIN modules |->
        IF key \in {d.module : d \in diffs} /\ resp[key].parsed
        THEN resp[key].value
        ELSE modules[key]]

----------------------------------------------------------------------------
(* Impact Analyzer *)

MaxCandidates == 2              \* candidates the structural query returns

SEMANTIC_THRESHOLD == 65        \* 0.65; scores are in hundredths
FailOpenScore == 100            \* semanticScore: 1.0

SpecIds == {1, 2, 3}            \* spec ids the structural query may return
Scores == {40, 65, 81}          \* cosine similarities: below, at, above the threshold
NoContent == "undefined"       \* regulationContent not passed
RegulationContents == {NoContent, "", "data at rest must use 256-bit encryption"}

\* The rows rpc('find_affected_specs') may return: distinct specs, in any order.
CandidateLists ==
    {cs \in UNION {[1..n -> [spec_id : SpecIds]] : n \in 0..MaxCandidates} :
        \A a, b \in DOMAIN cs : cs[a].spec_id = cs[b].spec_id => a = b}

CandidateIds(candidates) == {candidates[i].spec_id : i \in DOMAIN candidates}

\* What the database and the embedding capability answer during one call:
\*   rpcError: the structural query fails;  queryEmbedThrows: embedding the
\*   regulation content throws;  and per candidate,  master: the fetch of its
\*   row gives a master_specification,  embedThrows: embedding its text throws,
\*   score: the cosine similarity of the two embeddings.
AnalyzerAnswers(ids) ==
    [rpcError : BOOLEAN, queryEmbedThrows : BOOLEAN,
     master : [ids -> BOOLEAN], embedThrows : [ids -> BOOLEAN], score : [ids -> Scores]]

\* !regulationContent
ContentOmitted_Never(regulationContent) == FALSE
ContentOmitted(regulationContent) == regulationContent = NoContent \/ regulationContent = ""

Retained(similarity) == similarity >= SEMANTIC_THRESHOLD

AffectedSpec(candidate, semanticScore) ==
    [specId |-> candidate.spec_id, semanticScore |-> semanticScore]

\* results.sort((a, b) => b.semanticScore - a.semanticScore): descending, stable.
RECURSIVE InsertByScore(_, _)
InsertByScore(sorted, x) ==
    IF sorted = <<>> THEN <<x>>
    ELSE IF Head(sorted).semanticScore >= x.semanticScore
         THEN <<Head(sorted)>> \o InsertByScore(Tail(sorted), x)
         ELSE <<x>> \o sorted

RECURSIVE SortByScore(_)
SortByScore(results) ==
    IF results = <<>> THEN <<>>
    ELSE InsertByScore(SortByScore(SubSeq(results, 1, Len(results) - 1)),
                       results[Len(results)])

Threw(embedCalls) == [thrown |-> TRUE, value |-> <<>>, embedCalls |-> embedCalls]
Returned(value, embedCalls) == [thrown |-> FALSE, value |-> value, embedCalls |-> embedCalls]

\* The loop over the candidates, from the i-th on.
RECURSIVE ScoreCandidates(_, _, _, _, _)
ScoreCandidates(candidates, i, results, embedCalls, ext) ==
    IF i > Len(candidates) THEN Returned(results, embedCalls)
    ELSE LET candidate == candidates[i]
             id == candidate.spec_id
         IN  IF ~ext.master[id]
             THEN ScoreCandidates(candidates, i + 1, results, embedCalls, ext)
             ELSE IF ext.embedThrows[id]
             THEN Threw(embedCalls + 1)
             ELSE LET similarity == ext.score[id] IN
                  ScoreCandidates(candidates, i + 1,
                      IF Retained(similarity)
                      THEN Append(results, AffectedSpec(candidate, similarity))
                      ELSE results,
                      embedCalls + 1, ext)

findAffectedSpecs(candidates, regulationContent, ext) ==
    IF ext.rpcError THEN Threw(0)
    ELSE IF Len(candidates) = 0 THEN Returned(<<>>, 0)
    ELSE IF ContentOmitted(regulationContent)
    THEN Returned([i \in 1..Len(candidates) |-> AffectedSpec(candidates[i], FailOpenScore)], 0)
    ELSE IF ext.queryEmbedThrows THEN Threw(1)
    ELSE LET scored == ScoreCandidates(candidates, 1, <<>>, 1, ext) IN
         IF scored.thrown THEN scored
         ELSE Returned(SortByScore(scored.value), scored.embedCalls)

\* One call of findAffectedSpecs.
IdleAnalysis ==
    [pc |-> "idle", candidates |-> <<>>, regulationContent |-> NoContent,
     ext |-> <<>>, outcome |-> Returned(<<>>, 0)]

----------------------------------------------------------------------------
(* Version labels *)

MaxLabelLen == 6                \* characters of a stored version label

\* A label is the sequence of its characters.
DigitChars == <<"0", "1", "2", "3", "4", "5", "6", "7", "8", "9">>
IsDigit(c) == \E i \in DOMAIN DigitChars : DigitChars[i] = c
DigitValue(c) == (CHOOSE i \in DOMAIN DigitChars : DigitChars[i] = c) - 1

LabelChars == {"v", ".", "1", "9"}
Labels == UNION {[1..n -> LabelChars] : n \in 0..MaxLabelLen}
NullLabel == <<"null">>                         \* version_label is null
DefaultLabel == <<"v", "1", ".", "0", ".", "0">>    \* 'v1.0.0'

\* parseInt of a run of digits, and the decimal digits of a number.
RECURSIVE ParseInt(_)
ParseInt(digits) ==
    IF digits = <<>> THEN 0
    ELSE 10 * ParseInt(SubSeq(digits, 1, Len(digits) - 1)) + DigitValue(digits[Len(digits)])

RECURSIVE ToDigits(_)
ToDigits(n) ==
    IF n < 10 THEN <<DigitChars[n + 1]>>
    ELSE ToDigits(n \div 10) \o <<DigitChars[(n % 10) + 1]>>

\* current.match(/^v?(\d+)\.(\d+)\.(\d+)$/): the three groups, or no match.
NoMatch == [matched |-> FALSE, major |-> <<>>, minor |-> <<>>, patch |-> <<>>]
MatchVersion(current) ==
    LET body == IF current # <<>> /\ Head(current) = "v" THEN Tail(current) ELSE current
        dots == {i \in DOMAIN body : body[i] = "."}
        IsDigits(run) == run # <<>> /\ \A i \in DOMAIN run : IsDigit(run[i])
    IN  IF Cardinality(dots) # 2 THEN NoMatch
        ELSE LET first == CHOOSE i \in dots : \A k \in dots : i <= k
                 second == CHOOSE i \in dots : \A k \in dots : k <= i
                 major == SubSeq(body, 1, first - 1)
                 minor == SubSeq(body, first + 1, second - 1)
                 patch == SubSeq(body, second + 1, Len(body))
             IN  IF IsDigits(major) /\ IsDigits(minor) /\ IsDigits(patch)
                 THEN [matched |-> TRUE, major |-> major, minor |-> minor, patch |-> patch]
                 ELSE NoMatch

bumpMinorVersion_Suffix(current) == current \o <<".", "1">>
bumpMinorVersion(current) ==
    LET match == MatchVersion(current) IN
    IF ~match.matched THEN current \o <<".", "1">>
    ELSE <<"v">> \o match.major \o <<".">> \o ToDigits(ParseInt(match.minor) + 1)
             \o <<".", "0">>

\* currentSpec.versionLabel ?? 'v1.0.0'
LabelOrDefault(versionLabel) == IF versionLabel = NullLabel THEN DefaultLabel ELSE versionLabel

----------------------------------------------------------------------------
(* Version Store *)

VersionIds == DOMAIN spec_versions

\* uuidv4(): an id no row has.  First versions take 1, 2, ...; the id a job
\* draws in an attempt is determined by the job and the attempt.
NewRootId == Cardinality({v \in VersionIds : spec_versions[v].parent_id = NULL}) + 1
NewVersionId(j) == 10 * j + jobs[j].attemptsMade

mapRowToSpec(id, row) ==
    [id |-> id, parentId |-> row.parent_id, versionNumber |-> row.version_number,
     versionLabel |-> row.version_label,
     status |-> row.status, modules |-> row.modules]

\* The database's side of an insert into spec_versions: a new active child
\* supersedes its parent in the same transaction, and the insert aborts when
\* that parent is no longer active.
InsertSpecVersionTx(table, id, row) ==
    IF row.status = "active" /\ row.parent_id # NULL
    THEN IF row.parent_id \in DOMAIN table /\ table[row.parent_id].status = "active"
         THEN [error |-> FALSE,
               table |-> [v \in DOMAIN table \cup {id} |->
                            IF v = id THEN row
                            ELSE IF v = row.parent_id
                                 THEN [table[v] EXCEPT !.status = "superseded"]
                                 ELSE table[v]]]
         ELSE [error |-> TRUE, table |-> table]
    ELSE [error |-> FALSE,
          table |-> [v \in DOMAIN table \cup {id} |-> IF v = id THEN row ELSE table[v]]]

\* generateFullSpec: the first version of a lineage.
FirstVersionRow ==
    [parent_id |-> NULL, version_number |-> 1, version_label |-> DefaultLabel,
     status |-> "draft", github_pr_url |-> NULL,
     diff_count |-> 0, regulation_trigger |-> "none",
     modules |-> [k \in ModuleKeys |-> [f \in Fields |-> "AES-128"]]]

----------------------------------------------------------------------------
(* patchSpec *)

NoModulesAffected(affectedModules) == affectedModules = {}

NoClauseChanges_Ignored(allDiffs) == FALSE
NoClauseChanges(allDiffs) == allDiffs = {}

NewVersionNumber_Same(currentSpec) == currentSpec.versionNumber
NewVersionNumber(currentSpec) == currentSpec.versionNumber + 1

NewVersionRow_Draft(j, currentSpec, updatedModules, allDiffs) ==
    [parent_id |-> jobs[j].specVersionId,
     version_number |-> NewVersionNumber(currentSpec),
     version_label |-> bumpMinorVersion(LabelOrDefault(currentSpec.versionLabel)),
     status |-> "draft", github_pr_url |-> NULL,
     diff_count |-> Cardinality(allDiffs),
     regulation_trigger |-> RegulationOf(j),
     modules |-> updatedModules]
NewVersionRow(j, currentSpec, updatedModules, allDiffs) ==
    [parent_id |-> jobs[j].specVersionId,
     version_number |-> NewVersionNumber(currentSpec),
     version_label |-> bumpMinorVersion(LabelOrDefault(currentSpec.versionLabel)),
     status |-> "active", github_pr_url |-> NULL,
     diff_count |-> Cardinality(allDiffs),
     regulation_trigger |-> RegulationOf(j),
     modules |-> updatedModules]

VersionInsertThrows_Ignored(insertError) == FALSE
VersionInsertThrows(insertError) == insertError

DiffRows(specVersionId, newVersionId, allDiffs) ==
    {[from_version_id |-> specVersionId, to_version_id |-> newVersionId,
      module |-> d.module, clause_path |-> d.clausePath,
      before_value |-> d.before, after_value |-> d.after,
      regulation_trigger |-> d.regulationTrigger] : d \in allDiffs}

ImpactLogRow(j, newVersionId) ==
    [regulation_ref |-> RegulationOf(j),
     spec_version_id |-> jobs[j].specVersionId,
     new_spec_version_id |-> newVersionId,
     affected_modules |-> jobs[j].affectedModules,
     diff_count |-> Cardinality(jobs[j].allDiffs),
     status |-> "patched", github_pr_url |-> NULL]

SpecUpdatedEvent(j) ==
    [topic |-> "spec.updated",
     specVersionId |-> jobs[j].specVersionId,
     newVersionId |-> jobs[j].newVersionId,
     regulationTrigger |-> RegulationOf(j),
     affectedModules |-> jobs[j].affectedModules,
     diffs |-> jobs[j].allDiffs]

PRRequestedEvent(j) ==
    [topic |-> "spec.pr_requested",
     specVersionId |-> jobs[j].newVersionId,
     previousVersionId |-> jobs[j].specVersionId,
     regulationTrigger |-> RegulationOf(j),
     affectedModules |-> jobs[j].affectedModules,
     diffs |-> jobs[j].allDiffs]

----------------------------------------------------------------------------
(* The spec-patch queue *)

NoSpec == [id |-> NULL, parentId |-> NULL, versionNumber |-> 0, versionLabel |-> <<>>,
           status |-> "none", modules |-> <<>>]

\* A job's data and, while an attempt runs, patchSpec's locals.
\*   versionCreated: the version an attempt of this job inserted (kept across
\*   attempts); failedReason: the error of the last failed attempt;
\*   classifierText, applyResponses: the text the classifier answered and the
\*   answers to the apply prompts, in this attempt.
IdleJob ==
    [pc |-> "idle", specVersionId |-> NULL, regulation |-> "none", attemptsMade |-> 0,
     failedReason |-> "none", currentSpec |-> NoSpec, affectedModules |-> {},
     allDiffs |-> {}, updatedModules |-> <<>>, newVersionId |-> NULL,
     newVersionNumber |-> NULL, versionCreated |-> NULL, classifierText |-> NoText, applyResponses |-> <<>>]

\* An attempt throws: the queue counts it and either schedules the job again
\* (patchSpec runs again from its first line, with the same job data) or,
\* after Attempts attempts, marks the job failed.
Thrown(job, reason) ==
    [job EXCEPT !.pc = IF job.attemptsMade + 1 < Attempts THEN "waiting" ELSE "failed",
                !.attemptsMade = job.attemptsMade + 1,
                !.failedReason = reason,
                !.currentSpec = NoSpec, !.affectedModules = {}, !.allDiffs = {},
                !.updatedModules = <<>>, !.newVersionId = NULL, !.newVersionNumber = NULL,
                !.classifierText = NoText, !.applyResponses = <<>>]

Throw(j, reason) ==
    /\ jobs' = [jobs EXCEPT ![j] = Thrown(jobs[j], reason)]
    /\ UNCHANGED <<spec_versions, spec_diffs, regulation_impact_log, events, consumer, analysis, pr_queue, compliance, infrastructure>>

\* What patchSpec returns without a new version: the loaded version's id and
\* number.
NoChangeResult_NextNumber(job) ==
    [newVersionId |-> job.specVersionId,
     newVersionNumber |-> job.currentSpec.versionNumber + 1]
NoChangeResult(job) ==
    [newVersionId |-> job.specVersionId,
     newVersionNumber |-> job.currentSpec.versionNumber]

\* patchSpec returns without a new version.
ReturnNoChange(j, affectedModules) ==
    /\ jobs' = [jobs EXCEPT ![j].pc = "completed",
                            ![j].affectedModules = affectedModules,
                            ![j].allDiffs = {},
                            ![j].newVersionId = NoChangeResult(jobs[j]).newVersionId,
                            ![j].newVersionNumber = NoChangeResult(jobs[j]).newVersionNumber]
    /\ UNCHANGED <<spec_versions, spec_diffs, regulation_impact_log, events, consumer, analysis, pr_queue, compliance, infrastructure>>

----------------------------------------------------------------------------
(* The regulation consumer *)

\* A message of the bus: the topic it is on and its value, which is absent,
\* text that is not JSON, or an event as JSON.
NoValue == [present |-> FALSE, json |-> FALSE, text |-> ""]
Unparsable == [present |-> TRUE, json |-> FALSE, text |-> "{"]
JSONStringify(event) == [present |-> TRUE, json |-> TRUE, text |-> event]
JSONParses(value) == value.json
JSONParse(value) == value.text

\* The topics the regulation consumer has a handler for.
Handlers == {"regulation.new", "regulation.updated"}

\* The regulation.new topic, as the scraper filled it.
RegulationTopic ==
    <<[topic |-> "regulation.new", value |-> JSONStringify("GDPR Article 32")]>>

\* messages: what the broker delivers to the consumer group, in order;
\* offset: the messages the consumer group is done with; log: what eachMessage
\* made of each of them;
\* affectedSpecs, scores, rejected, outcome: of the last handling (scores is
\* what the similarity of each candidate to the regulation is; rejected, the
\* positions in affectedSpecs whose enqueue call rejected).
IdleConsumer ==
    [pc |-> "idle", offset |-> 0, event |-> "none", affectedSpecs |-> <<>>,
     scores |-> <<>>, rejected |-> {}, outcome |-> "none",
     messages |-> RegulationTopic, log |-> <<>>]

\* eachMessage resolves, the handler having returned or thrown (the error is
\* caught and logged): the consumer moves on to the next offset.
MessageDone(c, outcome) ==
    [c EXCEPT !.pc = "idle", !.offset = c.offset + 1, !.outcome = outcome,
              !.log = Append(c.log, outcome)]

\* The handler threw: eachMessage catches the error and logs it.
CatchHandlerError_Rethrown(c) == [c EXCEPT !.pc = "crashed", !.outcome = "handler_error"]
CatchHandlerError(c) == MessageDone(c, "handler_error")

\* Promise.allSettled over the enqueue calls, all started by map.
Enqueued_UntilFirstRejection(i, rejected) == \A k \in rejected : i < k
Enqueued(i, rejected) == i \notin rejected

\* The structural query's rows in the fan-out: one job per row, and spec 3 is
\* a spec whose row is gone by the time its job runs.
FanOutCandidates == {cs \in CandidateLists : Len(cs) <= Cardinality(Jobs)}

\* What the external capabilities answer in the fan-out: one diff per spec.
Plain ==
    [classifier |-> {Parsed({"security_blueprint"})},
     diffs |-> {Parsed({[clausePath |-> "algorithm", before |-> "AES-128",
                         after |-> "AES-256"]})},
     apply |-> {Parsed([f \in Fields |-> "AES-256"])},
     diffErrors |-> {FALSE},
     logErrors |-> {FALSE}]

----------------------------------------------------------------------------
(* The services around the pipeline, before any call *)

Callers == {1, 2, 3}            \* concurrent calls of submitJob, getProducer, createConsumer
GroupIds == {"assure-regulation-impact-group", "assure-github-pr-group"}

FreeWorkspace == [plan |-> "free", monthly_report_count |-> NULL]
IdleRequest == [pc |-> "idle", jobId |-> NULL, used |-> NULL]

IdleCompliance ==
    /\ compliance_jobs = <<>>
    /\ compliance_queue = <<>>
    /\ workspaces = FreeWorkspace
    /\ requests = [c \in Callers |-> IdleRequest]

\* let _producer = null; const _consumers = new Map().
\*   producers: the producers created so far, each connected or not;
\*   consumers: the consumers created so far, each with its group and how far
\*   it got; publishers, starters: the calls of publishEvent and
\*   createConsumer in progress; sent: the producer.send calls made.
IdleCall == [pc |-> "idle", object |-> NULL]
IdleKafka ==
    [producer |-> NULL, producers |-> <<>>, publishers |-> [c \in Callers |-> IdleCall],
     sent |-> {},
     consumers |-> [g \in GroupIds |-> NULL], created |-> <<>>,
     starters |-> [c \in Callers |-> IdleCall]]

EmptyRepository == [branches |-> {}, pulls |-> {}]

NoResult == [total |-> NULL, succeeded |-> NULL, failed |-> NULL]
\* regulations: how many records the call is given; failedChunks: the chunks
\* whose upsert the store answers with an error; embeddingError: whether
\* embedDocuments throws.
IdleIngestion ==
    [pc |-> "idle", fn |-> "none", regulations |-> NULL, failedChunks |-> {},
     embeddingError |-> FALSE, result |-> NoResult]

IdleInfrastructure ==
    /\ github = EmptyRepository
    /\ kafka = IdleKafka
    /\ ingestion = IdleIngestion

----------------------------------------------------------------------------
Init ==
    /\ spec_versions = (1 :> [FirstVersionRow EXCEPT !.status = "active"])
    /\ spec_diffs = {}
    /\ regulation_impact_log = {}
    /\ events = {}
    /\ jobs = [j \in Jobs |-> IdleJob]
    /\ consumer = IdleConsumer
    /\ analysis = IdleAnalysis
    /\ pr_queue = {}
    /\ IdleCompliance
    /\ IdleInfrastructure

\* The draft-generation flow stores a first version.
GenerateFullSpec ==
    /\ Cardinality({v \in VersionIds : spec_versions[v].status = "draft"}) < MaxDrafts
    /\ spec_versions' = InsertSpecVersionTx(spec_versions, NewRootId, FirstVersionRow).table
    /\ UNCHANGED <<spec_diffs, regulation_impact_log, events, jobs, consumer, analysis, pr_queue, compliance, infrastructure>>

\* handleRegulationNew enqueues one patch job for an affected (active) spec:
\* job j is the one the j-th regulation event brings.
Enqueue(j) ==
    /\ jobs[j].pc = "idle"
    /\ \E v \in VersionIds :
        /\ spec_versions[v].status = "active"
        /\ jobs' = [jobs EXCEPT ![j].pc = "waiting", ![j].specVersionId = v,
                                ![j].regulation = Regulations[j]]
    /\ UNCHANGED <<spec_versions, spec_diffs, regulation_impact_log, events, consumer, analysis, pr_queue, compliance, infrastructure>>

\* Step 1: load the spec version named in the job.
LoadSpec(j) ==
    /\ jobs[j].pc = "waiting"
    /\ \E fetchError \in BOOLEAN :
        IF fetchError \/ jobs[j].specVersionId \notin VersionIds
        THEN Throw(j, "error")
        ELSE /\ jobs' = [jobs EXCEPT
                    ![j].pc = "loaded",
                    ![j].currentSpec =
                        mapRowToSpec(jobs[j].specVersionId,
                                     spec_versions[jobs[j].specVersionId])]
             /\ UNCHANGED <<spec_versions, spec_diffs, regulation_impact_log, events, consumer, analysis, pr_queue, compliance, infrastructure>>

\* Step 2: detect the affected modules.
DetectModules(j, ext) ==
    /\ jobs[j].pc = "loaded"
    /\ \/ Throw(j, "error")
       \/ \E text \in ext.classifier :
            LET affectedModules == detectAffectedModules(text) IN
            IF NoModulesAffected(affectedModules)
            THEN ReturnNoChange(j, affectedModules)
            ELSE /\ jobs' = [jobs EXCEPT ![j].pc = "detected",
                                         ![j].classifierText = text,
                                         ![j].affectedModules = affectedModules]
                 /\ UNCHANGED <<spec_versions, spec_diffs, regulation_impact_log, events, consumer, analysis, pr_queue, compliance, infrastructure>>

\* Step 3: generate the clause diffs of every affected module.
GenerateDiffs(j, ext) ==
    /\ jobs[j].pc = "detected"
    /\ \/ Throw(j, "error")
       \/ \E text \in [jobs[j].affectedModules \cap DOMAIN jobs[j].currentSpec.modules
                          -> ext.diffs] :
            LET allDiffs == UNION {generateModuleDiffs(RegulationOf(j), k, text[k]) :
                                     k \in DOMAIN text} IN
            IF NoClauseChanges(allDiffs)
            THEN ReturnNoChange(j, jobs[j].affectedModules)
            ELSE /\ jobs' = [jobs EXCEPT ![j].pc = "generated", ![j].allDiffs = allDiffs]
                 /\ UNCHANGED <<spec_versions, spec_diffs, regulation_impact_log, events, consumer, analysis, pr_queue, compliance, infrastructure>>

\* Step 4: apply the diffs.
ApplyDiffs(j, ext) ==
    /\ jobs[j].pc = "generated"
    /\ \/ Throw(j, "error")
       \/ \E resp \in [{d.module : d \in jobs[j].allDiffs} -> ext.apply] :
            /\ jobs' = [jobs EXCEPT
                   ![j].pc = "applied",
                   ![j].applyResponses = resp,
                   ![j].updatedModules =
                       applyDiffsToSpec(jobs[j].currentSpec.modules, jobs[j].allDiffs, resp)]
            /\ UNCHANGED <<spec_versions, spec_diffs, regulation_impact_log, events, consumer, analysis, pr_queue, compliance, infrastructure>>

\* Step 5: insert the new version.
CreateVersion(j) ==
    /\ jobs[j].pc = "applied"
    /\ \E dbError \in BOOLEAN :
        LET newVersionId == NewVersionId(j)
            row == NewVersionRow(j, jobs[j].currentSpec, jobs[j].updatedModules,
                                 jobs[j].allDiffs)
            tx == InsertSpecVersionTx(spec_versions, newVersionId, row)
            insertError == dbError \/ tx.error
        IN  IF VersionInsertThrows(insertError)
            THEN Throw(j, IF tx.error THEN "conflict" ELSE "error")
            ELSE /\ spec_versions' = IF insertError THEN spec_versions ELSE tx.table
                 /\ jobs' = [jobs EXCEPT
                        ![j].pc = "version_created",
                        ![j].newVersionId = newVersionId,
                        ![j].newVersionNumber = NewVersionNumber(jobs[j].currentSpec),
                        ![j].updatedModules = <<>>,
                        ![j].versionCreated =
                            IF insertError THEN jobs[j].versionCreated ELSE newVersionId]
                 /\ UNCHANGED <<spec_diffs, regulation_impact_log, events, consumer, analysis, pr_queue, compliance, infrastructure>>

\* Step 6: save the diffs to the audit table (the result is not looked at).
SaveDiffs(j, ext) ==
    /\ jobs[j].pc = "version_created"
    /\ \E error \in ext.diffErrors :
        spec_diffs' = IF error THEN spec_diffs
                      ELSE spec_diffs \cup DiffRows(jobs[j].specVersionId,
                                                    jobs[j].newVersionId, jobs[j].allDiffs)
    /\ jobs' = [jobs EXCEPT ![j].pc = "audit_written",
                            ![j].classifierText = NoText, ![j].applyResponses = <<>>]
    /\ UNCHANGED <<spec_versions, regulation_impact_log, events, consumer, analysis, pr_queue, compliance, infrastructure>>

\* Step 7: log the impact (the result is not looked at).
LogImpact(j, ext) ==
    /\ jobs[j].pc = "audit_written"
    /\ \E error \in ext.logErrors :
        regulation_impact_log' =
            IF error THEN regulation_impact_log
            ELSE regulation_impact_log \cup {ImpactLogRow(j, jobs[j].newVersionId)}
    /\ jobs' = [jobs EXCEPT ![j].pc = "impact_logged"]
    /\ UNCHANGED <<spec_versions, spec_diffs, events, consumer, analysis, pr_queue, compliance, infrastructure>>

\* Step 8a: publish spec.updated.
PublishSpecUpdated(j) ==
    /\ jobs[j].pc = "impact_logged"
    /\ \/ Throw(j, "error")
       \/ /\ events' = events \cup {SpecUpdatedEvent(j)}
          /\ jobs' = [jobs EXCEPT ![j].pc = "updated_published"]
          /\ UNCHANGED <<spec_versions, spec_diffs, regulation_impact_log, consumer, analysis, pr_queue, compliance, infrastructure>>

\* Step 8b: publish spec.pr_requested, and return.
PublishPRRequested(j) ==
    /\ jobs[j].pc = "updated_published"
    /\ \/ Throw(j, "error")
       \/ /\ events' = events \cup {PRRequestedEvent(j)}
          /\ jobs' = [jobs EXCEPT ![j].pc = "completed"]
          /\ UNCHANGED <<spec_versions, spec_diffs, regulation_impact_log, consumer, analysis, pr_queue, compliance, infrastructure>>

\* One step of job j's attempt.
JobStep(j, ext) ==
    \/ LoadSpec(j)
    \/ DetectModules(j, ext)
    \/ GenerateDiffs(j, ext)
    \/ ApplyDiffs(j, ext)
    \/ CreateVersion(j)
    \/ SaveDiffs(j, ext)
    \/ LogImpact(j, ext)
    \/ PublishSpecUpdated(j)
    \/ PublishPRRequested(j)

\* Racing jobs, with retries.
Next ==
    \/ GenerateFullSpec
    \/ \E j \in Jobs : Enqueue(j)
    \/ \E j \in Jobs : JobStep(j, Core)

Spec == Init /\ [][Next]_vars

\* One job, with every generated content.
NextContent ==
    \/ Enqueue(1)
    \/ JobStep(1, Content)

SpecContent == Init /\ [][NextContent]_vars

\* findAffectedSpecs called on its own, with every input and every answer.
InitImpact ==
    /\ spec_versions = (1 :> [FirstVersionRow EXCEPT !.status = "active"])
    /\ spec_diffs = {}
    /\ regulation_impact_log = {}
    /\ events = {}
    /\ jobs = [j \in Jobs |-> IdleJob]
    /\ consumer = IdleConsumer
    /\ \E candidates \in CandidateLists, regulationContent \in RegulationContents :
        \E ext \in AnalyzerAnswers(CandidateIds(candidates)) :
            analysis = [IdleAnalysis EXCEPT !.pc = "called",
                                            !.candidates = candidates,
                                            !.regulationContent = regulationContent,
                                            !.ext = ext]
    /\ pr_queue = {}
    /\ IdleCompliance
    /\ IdleInfrastructure

FindAffectedSpecs ==
    /\ analysis.pc = "called"
    /\ LET outcome == findAffectedSpecs(analysis.candidates, analysis.regulationContent,
                                        analysis.ext)
       IN  analysis' = [analysis EXCEPT !.pc = IF outcome.thrown THEN "thrown" ELSE "returned",
                                        !.outcome = outcome]
    /\ UNCHANGED <<spec_versions, spec_diffs, regulation_impact_log, events, jobs, consumer, pr_queue, compliance, infrastructure>>

NextImpact == FindAffectedSpecs

SpecImpact == InitImpact /\ [][NextImpact]_vars

\* Two specs, each the active first version of its lineage, and one
\* regulation event in the topic.
InitFanOut ==
    /\ spec_versions = (1 :> [FirstVersionRow EXCEPT !.status = "active"])
                       @@ (2 :> [FirstVersionRow EXCEPT !.status = "active"])
    /\ spec_diffs = {}
    /\ regulation_impact_log = {}
    /\ events = {}
    /\ jobs = [j \in Jobs |-> IdleJob]
    /\ consumer = IdleConsumer
    /\ analysis = IdleAnalysis
    /\ pr_queue = {}
    /\ IdleCompliance
    /\ IdleInfrastructure

\* createConsumer.eachMessage: the next message is parsed and given to its
\* handler; a message without a value, one that is not JSON and one on a topic
\* without a handler are done with at once.
EachMessage ==
    /\ consumer.pc = "idle"
    /\ consumer.offset < Len(consumer.messages)
    /\ LET message == consumer.messages[consumer.offset + 1] IN
       consumer' =
           IF ~message.value.present
           THEN MessageDone(consumer, "no_value")
           ELSE IF ~JSONParses(message.value)
           THEN MessageDone(consumer, "parse_error")
           ELSE IF message.topic \notin Handlers
           THEN MessageDone(consumer, "no_handler")
           ELSE [consumer EXCEPT !.pc = "handling",
                                 !.event = JSONParse(message.value)]
    /\ UNCHANGED <<spec_versions, spec_diffs, regulation_impact_log, events, jobs, analysis, pr_queue, compliance, infrastructure>>

\* handleRegulationNew, step 1: findAffectedSpecs(framework, jurisdiction).
DetectImpact ==
    /\ consumer.pc = "handling"
    /\ \E candidates \in FanOutCandidates :
        \E ext \in AnalyzerAnswers(CandidateIds(candidates)) :
            LET found == findAffectedSpecs(candidates, NoContent, ext) IN
            consumer' =
                IF found.thrown
                THEN CatchHandlerError(consumer)
                ELSE IF Len(found.value) = 0
                THEN MessageDone(consumer, "handled")
                ELSE [consumer EXCEPT !.pc = "enqueuing",
                                      !.affectedSpecs = found.value,
                                      !.scores = ext.score]
    /\ UNCHANGED <<spec_versions, spec_diffs, regulation_impact_log, events, jobs, analysis, pr_queue, compliance, infrastructure>>

\* handleRegulationNew, step 2: one enqueue call per affected spec, all settled.
EnqueueJobs ==
    /\ consumer.pc = "enqueuing"
    /\ \E rejected \in SUBSET DOMAIN consumer.affectedSpecs :
        /\ jobs' = [j \in Jobs |->
                      IF j \in DOMAIN consumer.affectedSpecs /\ Enqueued(j, rejected)
                      THEN [IdleJob EXCEPT !.pc = "waiting",
                                           !.specVersionId = consumer.affectedSpecs[j].specId,
                                           !.regulation = consumer.event]
                      ELSE jobs[j]]
        /\ consumer' = MessageDone([consumer EXCEPT !.rejected = rejected], "handled")
    /\ UNCHANGED <<spec_versions, spec_diffs, regulation_impact_log, events, analysis, pr_queue, compliance, infrastructure>>

\* From the regulation event to the patch jobs of the affected specs.
NextFanOut ==
    \/ EachMessage
    \/ DetectImpact
    \/ EnqueueJobs
    \/ \E j \in Jobs : JobStep(j, Plain)

SpecFanOut == InitFanOut /\ [][NextFanOut]_vars

\* One spec with any stored label, and one job that patches it.
InitLabel ==
    /\ \E label \in Labels \cup {NullLabel} :
        spec_versions = (1 :> [FirstVersionRow EXCEPT !.status = "active",
                                                      !.version_label = label])
    /\ spec_diffs = {}
    /\ regulation_impact_log = {}
    /\ events = {}
    /\ jobs = [j \in Jobs |-> IdleJob]
    /\ consumer = IdleConsumer
    /\ analysis = IdleAnalysis
    /\ pr_queue = {}
    /\ IdleCompliance
    /\ IdleInfrastructure

NextLabel ==
    \/ Enqueue(1)
    \/ JobStep(1, Plain)

SpecLabel == InitLabel /\ [][NextLabel]_vars

----------------------------------------------------------------------------
(* The dispatch loop of a bus consumer *)

MaxMessages == 4

Messages ==
    {[topic |-> "regulation.new", value |-> JSONStringify("GDPR Article 32")],
     [topic |-> "regulation.new", value |-> NoValue],
     [topic |-> "regulation.updated", value |-> Unparsable],
     [topic |-> "spec.created", value |-> JSONStringify("GDPR Article 32")]}

Deliveries == UNION {[1..n -> Messages] : n \in 1..MaxMessages}

\* A consumer group with any messages delivered to it.
InitDispatch ==
    /\ spec_versions = (1 :> [FirstVersionRow EXCEPT !.status = "active"])
    /\ spec_diffs = {}
    /\ regulation_impact_log = {}
    /\ events = {}
    /\ jobs = [j \in Jobs |-> IdleJob]
    /\ \E messages \in Deliveries : consumer = [IdleConsumer EXCEPT !.messages = messages]
    /\ analysis = IdleAnalysis
    /\ pr_queue = {}
    /\ IdleCompliance
    /\ IdleInfrastructure

\* await handler(parsed, messagePayload): any handler, which returns or throws.
Handler ==
    /\ consumer.pc = "handling"
    /\ \E threw \in BOOLEAN :
        consumer' = IF threw THEN CatchHandlerError(consumer)
                             ELSE MessageDone(consumer, "handled")
    /\ UNCHANGED <<spec_versions, spec_diffs, regulation_impact_log, events, jobs, analysis, pr_queue, compliance, infrastructure>>

NextDispatch ==
    \/ EachMessage
    \/ Handler

\* consumer.run keeps calling eachMessage while messages are delivered.
SpecDispatch == InitDispatch /\ [][NextDispatch]_vars /\ WF_vars(NextDispatch)

----------------------------------------------------------------------------
(* The GitHub PR follow-up *)

PrNumbers == {1, 2}     \* pr.html_url, by the number of the pull request opened
PRAttempts == 5         \* defaultJobOptions.attempts of the github-pr queue
MaxPRJobs == 2          \* PR jobs enqueued (deliveries of spec.pr_requested that enqueue)

\* The handler of spec.pr_requested (at least once per event): a workspace
\* without a GitHub connection is skipped; the version is fetched by id and a
\* PR job is put on the github-pr queue.
PRJob(event, n) ==
    [id |-> n, specVersion |-> [id |-> event.specVersionId],
     previousVersionId |-> event.previousVersionId,
     regulationTrigger |-> event.regulationTrigger,
     attemptsMade |-> 0, state |-> "waiting"]

HandlePRRequested ==
    /\ Cardinality(pr_queue) < MaxPRJobs
    /\ \E event \in {e \in events : e.topic = "spec.pr_requested"} :
        \E conn \in BOOLEAN :
            pr_queue' =
                IF ~conn \/ event.specVersionId \notin DOMAIN spec_versions
                THEN pr_queue
                ELSE pr_queue \cup {PRJob(event, Cardinality(pr_queue) + 1)}
    /\ UNCHANGED <<spec_versions, spec_diffs, regulation_impact_log, events, jobs, consumer, analysis, compliance, infrastructure>>

\* The github-pr queue, when an attempt throws.
PRAttemptFailed(job) ==
    [job EXCEPT !.state = IF job.attemptsMade + 1 < PRAttempts THEN "waiting" ELSE "failed",
                !.attemptsMade = job.attemptsMade + 1]

\* compliance/<regulation>-<versionLabel>: the branch of a PR job.
BranchName(job) == [regulationTrigger |-> job.regulationTrigger, version |-> job.specVersion.id]

\* The github-pr worker runs one attempt of createCompliancePR.  The attempt
\*   throws before the branch is created; or
\*   throws at createRef, the branch being there already; or
\*   creates the branch and throws before the pull request is opened; or
\*   opens the pull request and throws at addAssignees; or
\*   opens it and writes its URL on the version's row and on the impact-log
\*   rows of the version, which become pr_created (neither update's error is
\*   looked at), and returns.
CreateCompliancePR ==
    \E job \in {q \in pr_queue : q.state = "waiting"} :
        LET failed == (pr_queue \ {job}) \cup {PRAttemptFailed(job)}
            done == (pr_queue \ {job}) \cup {[job EXCEPT !.state = "completed",
                                                         !.attemptsMade = job.attemptsMade + 1]}
            branch == BranchName(job)
        IN
        /\ \/ /\ pr_queue' = failed
              /\ UNCHANGED <<spec_versions, regulation_impact_log, github>>
           \/ /\ branch \in github.branches
              /\ pr_queue' = failed
              /\ UNCHANGED <<spec_versions, regulation_impact_log, github>>
           \/ /\ branch \notin github.branches
              /\ pr_queue' = failed
              /\ github' = [github EXCEPT !.branches = github.branches \cup {branch}]
              /\ UNCHANGED <<spec_versions, regulation_impact_log>>
           \/ /\ branch \notin github.branches
              /\ \E pr \in PrNumbers \ {p.number : p \in github.pulls} :
                    /\ github' = [github EXCEPT
                                     !.branches = github.branches \cup {branch},
                                     !.pulls = github.pulls \cup {[head |-> branch, number |-> pr]}]
                    /\ \/ /\ pr_queue' = failed
                          /\ UNCHANGED <<spec_versions, regulation_impact_log>>
                       \/ /\ pr_queue' = done
                          /\ \E versionError \in BOOLEAN, logError \in BOOLEAN :
                              /\ spec_versions' =
                                    IF versionError THEN spec_versions
                                    ELSE [spec_versions EXCEPT
                                             ![job.specVersion.id].github_pr_url = pr]
                              /\ regulation_impact_log' =
                                    IF logError THEN regulation_impact_log
                                    ELSE {IF r.new_spec_version_id = job.specVersion.id
                                          THEN [r EXCEPT !.status = "pr_created",
                                                         !.github_pr_url = pr]
                                          ELSE r : r \in regulation_impact_log}
        /\ UNCHANGED <<spec_diffs, events, jobs, consumer, analysis, compliance, kafka, ingestion>>

\* One patch job and the PR follow-up of its event.
NextPR ==
    \/ Enqueue(1)
    \/ JobStep(1, Plain)
    \/ HandlePRRequested
    \/ CreateCompliancePR

SpecPR == Init /\ [][NextPR]_vars

----------------------------------------------------------------------------
(* Generated diffs that name a module and a regulation themselves *)

\* Every generated diff says it is of some module (a ModuleKey or not) and of
\* a regulation that is not the job's.
StampedDiffs ==
    [clausePath : {"algorithm"}, before : {"AES-128"}, after : {"AES-256"},
     module : ModuleKeys \cup {UnknownKey}, regulationTrigger : {Regulations[2]}]

Stamped ==
    [classifier |-> {Parsed({"security_blueprint"}), Parsed(ModuleKeys)},
     diffs |-> {Parsed({d}) : d \in StampedDiffs},
     apply |-> {Parsed([f \in Fields |-> "AES-256"])},
     diffErrors |-> {FALSE},
     logErrors |-> {FALSE}]

NextStamp ==
    \/ Enqueue(1)
    \/ JobStep(1, Stamped)

SpecStamp == Init /\ [][NextStamp]_vars

----------------------------------------------------------------------------
(* The same regulation, applied a second time *)

\* The regulation of job 1 arrives again (regulation.updated has the handler
\* of regulation.new) once job 1 is done: job 2 is enqueued for the version
\* that is active by then.
Reapply ==
    /\ jobs[1].pc = "completed"
    /\ jobs[2].pc = "idle"
    /\ \E v \in VersionIds :
        /\ spec_versions[v].status = "active"
        /\ jobs' = [jobs EXCEPT ![2].pc = "waiting", ![2].specVersionId = v,
                                ![2].regulation = jobs[1].regulation]
    /\ UNCHANGED <<spec_versions, spec_diffs, regulation_impact_log, events, consumer, analysis, pr_queue, compliance, infrastructure>>

NextReapply ==
    \/ Enqueue(1)
    \/ Reapply
    \/ \E j \in Jobs : JobStep(j, Core)

SpecReapply == Init /\ [][NextReapply]_vars

----------------------------------------------------------------------------
(* kafka.client.ts: the producer and the consumers, under concurrent calls *)

\* publishEvent calls getProducer: without a producer, one is created and
\* assigned to _producer, and the call waits for its connect(); with one, the
\* call has it at once.
GetProducer(c) ==
    /\ kafka.publishers[c].pc = "idle"
    /\ kafka' =
          IF kafka.producer = NULL
          THEN [kafka EXCEPT !.producers = Append(kafka.producers, [connected |-> FALSE]),
                             !.producer = Len(kafka.producers) + 1,
                             !.publishers[c] = [pc |-> "connecting",
                                                object |-> Len(kafka.producers) + 1]]
          ELSE [kafka EXCEPT !.publishers[c] = [pc |-> "sending", object |-> kafka.producer]]
    /\ UNCHANGED <<spec_versions, spec_diffs, regulation_impact_log, events, jobs, consumer,
                   analysis, pr_queue, compliance, github, ingestion>>

\* connect() of the producer the call created resolves, or rejects and
\* publishEvent throws (_producer stays as assigned).
ConnectProducer(c) ==
    /\ kafka.publishers[c].pc = "connecting"
    /\ \/ kafka' = [kafka EXCEPT !.producers[kafka.publishers[c].object].connected = TRUE,
                                 !.publishers[c].pc = "sending"]
       \/ kafka' = [kafka EXCEPT !.publishers[c].pc = "failed"]
    /\ UNCHANGED <<spec_versions, spec_diffs, regulation_impact_log, events, jobs, consumer,
                   analysis, pr_queue, compliance, github, ingestion>>

\* producer.send is invoked on the producer the call has.
Send(c) ==
    /\ kafka.publishers[c].pc = "sending"
    /\ kafka' =
          [kafka EXCEPT
              !.sent = kafka.sent \cup
                          {[publisher |-> c, producer |-> kafka.publishers[c].object,
                            connected |-> kafka.producers[kafka.publishers[c].object].connected]},
              !.publishers[c].pc = "published"]
    /\ UNCHANGED <<spec_versions, spec_diffs, regulation_impact_log, events, jobs, consumer,
                   analysis, pr_queue, compliance, github, ingestion>>

NextProducer ==
    \/ \E c \in Callers : GetProducer(c)
    \/ \E c \in Callers : ConnectProducer(c)
    \/ \E c \in Callers : Send(c)

SpecProducer == Init /\ [][NextProducer]_vars

\* createConsumer(groupId, ...): a registered group's consumer is returned;
\* otherwise a consumer is created and the call waits for its connect().
CreateConsumer(c) ==
    /\ kafka.starters[c].pc = "idle"
    /\ \E groupId \in GroupIds :
        kafka' =
          IF kafka.consumers[groupId] # NULL
          THEN [kafka EXCEPT !.starters[c] = [pc |-> "returned",
                                              object |-> kafka.consumers[groupId]]]
          ELSE [kafka EXCEPT !.created = Append(kafka.created,
                                                [groupId |-> groupId, connected |-> FALSE,
                                                 subscribed |-> FALSE, running |-> FALSE]),
                             !.starters[c] = [pc |-> "connecting",
                                              object |-> Len(kafka.created) + 1]]
    /\ UNCHANGED <<spec_versions, spec_diffs, regulation_impact_log, events, jobs, consumer,
                   analysis, pr_queue, compliance, github, ingestion>>

\* await consumer.connect(), await consumer.subscribe(...), await
\* consumer.run(...): each resolves, or rejects and createConsumer throws.
ConnectConsumer(c) ==
    /\ kafka.starters[c].pc = "connecting"
    /\ \/ kafka' = [kafka EXCEPT !.created[kafka.starters[c].object].connected = TRUE,
                                 !.starters[c].pc = "subscribing"]
       \/ kafka' = [kafka EXCEPT !.starters[c].pc = "failed"]
    /\ UNCHANGED <<spec_versions, spec_diffs, regulation_impact_log, events, jobs, consumer,
                   analysis, pr_queue, compliance, github, ingestion>>

SubscribeConsumer(c) ==
    /\ kafka.starters[c].pc = "subscribing"
    /\ \/ kafka' = [kafka EXCEPT !.created[kafka.starters[c].object].subscribed = TRUE,
                                 !.starters[c].pc = "starting"]
       \/ kafka' = [kafka EXCEPT !.starters[c].pc = "failed"]
    /\ UNCHANGED <<spec_versions, spec_diffs, regulation_impact_log, events, jobs, consumer,
                   analysis, pr_queue, compliance, github, ingestion>>

RunConsumer(c) ==
    /\ kafka.starters[c].pc = "starting"
    /\ \/ kafka' = [kafka EXCEPT !.created[kafka.starters[c].object].running = TRUE,
                                 !.starters[c].pc = "registering"]
       \/ kafka' = [kafka EXCEPT !.starters[c].pc = "failed"]
    /\ UNCHANGED <<spec_versions, spec_diffs, regulation_impact_log, events, jobs, consumer,
                   analysis, pr_queue, compliance, github, ingestion>>

\* _consumers.set(groupId, consumer), and the consumer is returned.
RegisterConsumer(c) ==
    /\ kafka.starters[c].pc = "registering"
    /\ kafka' = [kafka EXCEPT
                    !.consumers[kafka.created[kafka.starters[c].object].groupId] =
                        kafka.starters[c].object,
                    !.starters[c].pc = "returned"]
    /\ UNCHANGED <<spec_versions, spec_diffs, regulation_impact_log, events, jobs, consumer,
                   analysis, pr_queue, compliance, github, ingestion>>

NextConsumers ==
    \/ \E c \in Callers : CreateConsumer(c)
    \/ \E c \in Callers : ConnectConsumer(c)
    \/ \E c \in Callers : SubscribeConsumer(c)
    \/ \E c \in Callers : RunConsumer(c)
    \/ \E c \in Callers : RegisterConsumer(c)

SpecConsumers == Init /\ [][NextConsumers]_vars

----------------------------------------------------------------------------
(* Ingestion of regulations *)

CHUNK_SIZE == 50
SeedCount == 13             \* SEED_REGULATIONS.length
MaxRegulations == 101       \* records given to ingestRegulations

\* The chunks of n records: 1 .. ceil(n / CHUNK_SIZE).
Chunks(n) == 1..((n + CHUNK_SIZE - 1) \div CHUNK_SIZE)

Min(a, b) == IF a < b THEN a ELSE b

\* The loop of upsertRegulations from record i (0-based) on: a chunk whose
\* upsert fails adds one message to errors, the others add their length to
\* succeeded.
RECURSIVE UpsertChunks(_, _, _, _, _)
UpsertChunks(i, n, failedChunks, succeeded, errors) ==
    IF i >= n
    THEN [succeeded |-> succeeded, failed |-> Len(errors), errors |-> errors]
    ELSE LET chunk == Min(i + CHUNK_SIZE, n) - i
             number == i \div CHUNK_SIZE + 1
         IN  IF number \in failedChunks
             THEN UpsertChunks(i + CHUNK_SIZE, n, failedChunks, succeeded,
                               Append(errors, number))
             ELSE UpsertChunks(i + CHUNK_SIZE, n, failedChunks, succeeded + chunk, errors)

upsertRegulations(n, failedChunks) == UpsertChunks(0, n, failedChunks, 0, <<>>)

IngestionResult(n, result) ==
    [total |-> n, succeeded |-> result.succeeded, failed |-> result.failed]

\* ingestRegulations(regulations): returns at once on an empty list; throws
\* when the embeddings cannot be generated.
IngestRegulations ==
    /\ ingestion.pc = "called"
    /\ ingestion.fn = "ingestRegulations"
    /\ ingestion' =
          IF ingestion.regulations = 0
          THEN [ingestion EXCEPT !.pc = "returned",
                                 !.result = [total |-> 0, succeeded |-> 0, failed |-> 0]]
          ELSE IF ingestion.embeddingError
          THEN [ingestion EXCEPT !.pc = "thrown"]
          ELSE [ingestion EXCEPT
                   !.pc = "returned",
                   !.result = IngestionResult(ingestion.regulations,
                                              upsertRegulations(ingestion.regulations,
                                                                ingestion.failedChunks))]
    /\ UNCHANGED <<spec_versions, spec_diffs, regulation_impact_log, events, jobs, consumer,
                   analysis, pr_queue, compliance, github, kafka>>

\* seedRegulations(): the same for the baseline set.
SeedRegulations ==
    /\ ingestion.pc = "called"
    /\ ingestion.fn = "seedRegulations"
    /\ ingestion' =
          IF ingestion.embeddingError
          THEN [ingestion EXCEPT !.pc = "thrown"]
          ELSE [ingestion EXCEPT
                   !.pc = "returned",
                   !.result = IngestionResult(SeedCount,
                                              upsertRegulations(SeedCount,
                                                                ingestion.failedChunks))]
    /\ UNCHANGED <<spec_versions, spec_diffs, regulation_impact_log, events, jobs, consumer,
                   analysis, pr_queue, compliance, github, kafka>>

\* One call, with any number of records and any chunks failing.
InitIngest ==
    /\ spec_versions = (1 :> [FirstVersionRow EXCEPT !.status = "active"])
    /\ spec_diffs = {}
    /\ regulation_impact_log = {}
    /\ events = {}
    /\ jobs = [j \in Jobs |-> IdleJob]
    /\ consumer = IdleConsumer
    /\ analysis = IdleAnalysis
    /\ pr_queue = {}
    /\ IdleCompliance
    /\ github = EmptyRepository
    /\ kafka = IdleKafka
    /\ \E embeddingError \in BOOLEAN :
        \/ \E n \in 0..MaxRegulations : \E failedChunks \in SUBSET Chunks(n) :
              ingestion = [IdleIngestion EXCEPT !.pc = "called", !.fn = "ingestRegulations",
                                                !.regulations = n,
                                                !.failedChunks = failedChunks,
                                                !.embeddingError = embeddingError]
        \/ \E failedChunks \in SUBSET Chunks(SeedCount) :
              ingestion = [IdleIngestion EXCEPT !.pc = "called", !.fn = "seedRegulations",
                                                !.regulations = SeedCount,
                                                !.failedChunks = failedChunks,
                                                !.embeddingError = embeddingError]

NextIngest ==
    \/ IngestRegulations
    \/ SeedRegulations

SpecIngest == InitIngest /\ [][NextIngest]_vars

----------------------------------------------------------------------------
(* The compliance job flow: submitJob and the compliance worker *)

FreeLimit == 3
ProLimit == 50
MaxSubmitted == 2       \* jobs waiting in the compliance queue at the start

ErrorMessages == {"timeout", "rate limit"}
NoMessage == "null"

\* What submitJob inserts, and the queue's job for it.
QueuedRecord == [status |-> "queued", error_message |-> NoMessage]
QueuedJob == [state |-> "waiting", attemptsMade |-> 0, failedReason |-> NoMessage, pc |-> "none"]

\* checkReportLimit: limits[data.plan] ?? 3, and used < limit.
PlanLimit(plan) ==
    IF plan = "free" THEN FreeLimit ELSE IF plan = "pro" THEN ProLimit ELSE FreeLimit
Allowed(used, limit) == used < limit

\* Step 1 of submitJob: the plan limit is checked against the counter as read.
CheckReportLimit(c) ==
    /\ requests[c].pc = "idle"
    /\ requests' =
          [requests EXCEPT ![c].used = workspaces.monthly_report_count,
                           ![c].pc = IF Allowed(workspaces.monthly_report_count,
                                                PlanLimit(workspaces.plan))
                                     THEN "allowed" ELSE "payment_required"]
    /\ UNCHANGED <<spec_versions, spec_diffs, regulation_impact_log, events, jobs, consumer,
                   analysis, pr_queue, compliance_jobs, compliance_queue, workspaces,
                   infrastructure>>

\* Step 2: the job record is inserted with status queued, or the insert fails
\* and submitJob throws.
InsertJobRecord(c) ==
    /\ requests[c].pc = "allowed"
    /\ \E error \in BOOLEAN :
        IF error
        THEN /\ requests' = [requests EXCEPT ![c].pc = "failed"]
             /\ UNCHANGED compliance_jobs
        ELSE /\ compliance_jobs' = Append(compliance_jobs, QueuedRecord)
             /\ requests' = [requests EXCEPT ![c].pc = "inserted",
                                             ![c].jobId = Len(compliance_jobs) + 1]
    /\ UNCHANGED <<spec_versions, spec_diffs, regulation_impact_log, events, jobs, consumer,
                   analysis, pr_queue, compliance_queue, workspaces, infrastructure>>

\* Step 3: incrementReportCount; an error of the rpc is logged and no more.
incrementReportCount(workspace, error) ==
    IF error THEN workspace
    ELSE [workspace EXCEPT !.monthly_report_count = workspace.monthly_report_count + 1]

IncrementReportCount(c) ==
    /\ requests[c].pc = "inserted"
    /\ \E error \in BOOLEAN : workspaces' = incrementReportCount(workspaces, error)
    /\ requests' = [requests EXCEPT ![c].pc = "counted"]
    /\ UNCHANGED <<spec_versions, spec_diffs, regulation_impact_log, events, jobs, consumer,
                   analysis, pr_queue, compliance_jobs, compliance_queue, infrastructure>>

\* Step 4: the job is put on the queue under the record's id, and submitJob
\* returns the id; or queue.add throws.
EnqueueComplianceJob(c) ==
    /\ requests[c].pc = "counted"
    /\ \/ /\ compliance_queue' = compliance_queue @@ (requests[c].jobId :> QueuedJob)
          /\ requests' = [requests EXCEPT ![c].pc = "accepted"]
       \/ /\ requests' = [requests EXCEPT ![c].pc = "failed"]
          /\ UNCHANGED compliance_queue
    /\ UNCHANGED <<spec_versions, spec_diffs, regulation_impact_log, events, jobs, consumer,
                   analysis, pr_queue, compliance_jobs, workspaces, infrastructure>>

\* A workspace on the free or the pro plan, with the jobs it has had accepted
\* this month, and concurrent calls of submitJob.
InitSubmit ==
    /\ spec_versions = (1 :> [FirstVersionRow EXCEPT !.status = "active"])
    /\ spec_diffs = {}
    /\ regulation_impact_log = {}
    /\ events = {}
    /\ jobs = [j \in Jobs |-> IdleJob]
    /\ consumer = IdleConsumer
    /\ analysis = IdleAnalysis
    /\ pr_queue = {}
    /\ \E plan \in {"free", "pro"} :
        \E used \in (PlanLimit(plan) - 2)..PlanLimit(plan) :
            /\ workspaces = [plan |-> plan, monthly_report_count |-> used]
            /\ compliance_jobs = [i \in 1..used |-> [QueuedRecord EXCEPT !.status = "completed"]]
            /\ compliance_queue = [i \in 1..used |-> [QueuedJob EXCEPT !.state = "completed"]]
    /\ requests = [c \in Callers |-> IdleRequest]
    /\ IdleInfrastructure

NextSubmit ==
    \/ \E c \in Callers : CheckReportLimit(c)
    \/ \E c \in Callers : InsertJobRecord(c)
    \/ \E c \in Callers : IncrementReportCount(c)
    \/ \E c \in Callers : EnqueueComplianceJob(c)

SpecSubmit == InitSubmit /\ [][NextSubmit]_vars

\* updateJobStatus: status and error_message (errorMessage ?? null) are
\* written on the job's record; the update's error is not looked at.
updateJobStatus(table, jobId, status, errorMessage, error) ==
    IF error THEN table
    ELSE [table EXCEPT ![jobId] = [status |-> status, error_message |-> errorMessage]]

\* The queue, when an attempt throws: another attempt after the backoff, or
\* failed once the attempts are used up.
AttemptFailed(job, message) ==
    [job EXCEPT !.state = IF job.attemptsMade + 1 < Attempts THEN "waiting" ELSE "failed",
                !.attemptsMade = job.attemptsMade + 1,
                !.failedReason = message,
                !.pc = "none"]

\* handleComplianceJob, first line: an attempt starts and the record is set
\* to processing.
UpdateProcessing(id) ==
    /\ compliance_queue[id].state = "waiting"
    /\ \E error \in BOOLEAN :
        compliance_jobs' = updateJobStatus(compliance_jobs, id, "processing", NoMessage, error)
    /\ compliance_queue' = [compliance_queue EXCEPT ![id].state = "active",
                                                    ![id].pc = "processing"]
    /\ UNCHANGED <<spec_versions, spec_diffs, regulation_impact_log, events, jobs, consumer,
                   analysis, pr_queue, workspaces, requests, infrastructure>>

\* job.progress(10), before the try block: it returns, or throws and the
\* attempt ends there.
ReportProgress(id) ==
    /\ compliance_queue[id].state = "active"
    /\ compliance_queue[id].pc = "processing"
    /\ \/ compliance_queue' = [compliance_queue EXCEPT ![id].pc = "pipeline"]
       \/ \E message \in ErrorMessages :
            compliance_queue' = [compliance_queue EXCEPT
                                    ![id] = AttemptFailed(compliance_queue[id], message)]
    /\ UNCHANGED <<spec_versions, spec_diffs, regulation_impact_log, events, jobs, consumer,
                   analysis, pr_queue, compliance_jobs, workspaces, requests, infrastructure>>

\* The try block: the pipeline runs and the record is set to completed; or
\* something in it throws, the record is set to failed with the message, and
\* the error is thrown again for the queue to retry.
RunCompliancePipeline(id) ==
    /\ compliance_queue[id].state = "active"
    /\ compliance_queue[id].pc = "pipeline"
    /\ \E error \in BOOLEAN :
        \/ /\ compliance_jobs' =
                 updateJobStatus(compliance_jobs, id, "completed", NoMessage, error)
           /\ compliance_queue' = [compliance_queue EXCEPT ![id].state = "completed",
                                                           ![id].pc = "none"]
        \/ \E message \in ErrorMessages :
            /\ compliance_jobs' =
                  updateJobStatus(compliance_jobs, id, "failed", message, error)
            /\ compliance_queue' = [compliance_queue EXCEPT
                                       ![id] = AttemptFailed(compliance_queue[id], message)]
    /\ UNCHANGED <<spec_versions, spec_diffs, regulation_impact_log, events, jobs, consumer,
                   analysis, pr_queue, workspaces, requests, infrastructure>>

\* Jobs that submitJob accepted, waiting for the worker (concurrency 2).
InitWorker ==
    /\ spec_versions = (1 :> [FirstVersionRow EXCEPT !.status = "active"])
    /\ spec_diffs = {}
    /\ regulation_impact_log = {}
    /\ events = {}
    /\ jobs = [j \in Jobs |-> IdleJob]
    /\ consumer = IdleConsumer
    /\ analysis = IdleAnalysis
    /\ pr_queue = {}
    /\ compliance_jobs = [i \in 1..MaxSubmitted |-> QueuedRecord]
    /\ compliance_queue = [i \in 1..MaxSubmitted |-> QueuedJob]
    /\ workspaces = [FreeWorkspace EXCEPT !.monthly_report_count = MaxSubmitted]
    /\ requests = [c \in Callers |-> IdleRequest]
    /\ IdleInfrastructure

ComplianceJobIds == 1..MaxSubmitted

NextWorker ==
    \/ \E id \in ComplianceJobIds : UpdateProcessing(id)
    \/ \E id \in ComplianceJobIds : ReportProgress(id)
    \/ \E id \in ComplianceJobIds : RunCompliancePipeline(id)

SpecWorker == InitWorker /\ [][NextWorker]_vars

----------------------------------------------------------------------------
(* Lineages *)

\* The versions an event names: the one patched and the one created.
OldVersionOf(e) ==
    IF e.topic = "spec.pr_requested" THEN e.previousVersionId ELSE e.specVersionId
NewVersionOf(e) ==
    IF e.topic = "spec.pr_requested" THEN e.specVersionId ELSE e.newVersionId

Row(v) == spec_versions[v]
PatchSteps == {"loaded", "detected", "generated", "applied"}   \* steps 2-5 pending

\* The versions met walking parentId from v, v included.
RECURSIVE Walk(_)
Walk(v) ==
    IF Row(v).parent_id = NULL \/ Row(v).parent_id \notin VersionIds
    THEN {v}
    ELSE {v} \cup Walk(Row(v).parent_id)

\* The first version of v's lineage.
RECURSIVE Root(_)
Root(v) ==
    IF Row(v).parent_id = NULL \/ Row(v).parent_id \notin VersionIds
    THEN v
    ELSE Root(Row(v).parent_id)

----------------------------------------------------------------------------
(* Claims *)

C3_ChainIntegrity ==
    \A v \in VersionIds :
        /\ Row(v).parent_id = NULL => Row(v).version_number = 1
        /\ Row(v).parent_id # NULL =>
            /\ Row(v).parent_id \in VersionIds
            /\ Row(v).version_number = Row(Row(v).parent_id).version_number + 1
        /\ {Row(w).version_number : w \in Walk(v)} = 1..Row(v).version_number
        /\ Cardinality(Walk(v)) = Row(v).version_number

\* A chain of three versions beside a second first version.
C3_Witness ==
    /\ \E v \in VersionIds : Row(v).version_number = 3
    /\ \E r \in VersionIds : r # 1 /\ Row(r).parent_id = NULL

\* C4: a retry after a conflict reloads the current (active) version.
C4_RetryReloadsCurrentVersion ==
    \A j \in Jobs :
        (jobs[j].failedReason = "conflict" /\ jobs[j].pc \in PatchSteps)
            => jobs[j].currentSpec.status = "active"

\* C5: once a job has created its version, a retry resumes after step 5: the
\* job never runs steps 1-5 again.
C5_RetryResumesAfterVersionCreated ==
    \A j \in Jobs :
        jobs[j].versionCreated # NULL => jobs[j].pc \notin PatchSteps

\* C6: every spec_diffs row, every patched impact-log row and every published
\* event references a new version that exists in spec_versions (and is the
\* child of the version the row or event names as the old one).
C6_VersionInsertHappensBefore ==
    /\ \A d \in spec_diffs :
        /\ d.to_version_id \in VersionIds
        /\ Row(d.to_version_id).parent_id = d.from_version_id
    /\ \A r \in regulation_impact_log :
        r.status = "patched" =>
            /\ r.new_spec_version_id \in VersionIds
            /\ Row(r.new_spec_version_id).parent_id = r.spec_version_id
    /\ \A e \in events :
        /\ NewVersionOf(e) \in VersionIds
        /\ Row(NewVersionOf(e)).parent_id = OldVersionOf(e)

\* Steps 6-8 done for one job while another job's version insert has failed.
C6_Witness ==
    /\ \E e \in events : e.topic = "spec.pr_requested"
    /\ spec_diffs # {}
    /\ regulation_impact_log # {}
    /\ \E k \in Jobs : jobs[k].failedReason = "conflict"

\* C7: a version that is logged as patched and announced by an event has its
\* ClauseDiff rows.
C7_AnnouncedVersionsHaveDiffRows ==
    \A e \in events :
        (\E r \in regulation_impact_log :
            r.status = "patched" /\ r.new_spec_version_id = NewVersionOf(e))
        => DiffRows(OldVersionOf(e), NewVersionOf(e), e.diffs) \subseteq spec_diffs

\* C8: a diff whose before is not the value at clausePath in the loaded
\* version's module payload is never audited and never put in an event.
C8_MismatchedDiffsRejected ==
    /\ \A d \in spec_diffs :
        ValueAt(Row(d.from_version_id).modules[d.module], d.clause_path) = d.before_value
    /\ \A e \in events : \A d \in e.diffs :
        ValueAt(Row(OldVersionOf(e)).modules[d.module], d.clausePath) = d.before

\* C9: diff faithfulness: for every audit row, the value at clausePath is
\* after in the toVersionId payload and before in the fromVersionId payload.
C9_DiffFaithfulness ==
    \A d \in spec_diffs :
        /\ ValueAt(Row(d.to_version_id).modules[d.module], d.clause_path) = d.after_value
        /\ ValueAt(Row(d.from_version_id).modules[d.module], d.clause_path) = d.before_value

\* C10: with no affected module, or no diff at all, patchSpec returns the
\* loaded version's id and writes nothing: every version, log row and event
\* patchSpec produces carries at least one diff and one affected module, and
\* the step that returns without a change leaves the tables and the bus as
\* they were.
C10_NoChangeState ==
    /\ \A v \in VersionIds : Row(v).parent_id # NULL => Row(v).diff_count >= 1
    /\ \A r \in regulation_impact_log : r.diff_count >= 1 /\ r.affected_modules # {}
    /\ \A e \in events : e.diffs # {} /\ e.affectedModules # {}
    /\ \A j \in Jobs :
        (jobs[j].pc = "completed" /\ (jobs[j].affectedModules = {} \/ jobs[j].allDiffs = {}))
            => jobs[j].newVersionId = jobs[j].specVersionId

C10_NoChangeStep ==
    \A j \in Jobs :
        (jobs[j].pc \in {"loaded", "detected"} /\ jobs'[j].pc = "completed")
            => UNCHANGED <<spec_versions, spec_diffs, regulation_impact_log, events>>

C10_NoChangeCreatesNothing == [](C10_NoChangeState) /\ [][C10_NoChangeStep]_vars

\* One job returned on an empty module set, the other on an empty diff list.
C10_Witness ==
    \E j, k \in Jobs :
        /\ jobs[j].pc = "completed" /\ jobs[j].affectedModules = {}
        /\ jobs[k].pc = "completed" /\ jobs[k].affectedModules # {} /\ jobs[k].allDiffs = {}

----------------------------------------------------------------------------
(* Claims on job outcomes and the fan-out *)

EnqueuedJobs == {j \in Jobs : jobs[j].pc # "idle"}

\* C11: a job that ends without a change (no affected module, or no diff)
\* has left an impact-log row for its regulation and spec with status
\* no_change and no new version id.
C11_NoChangeIsLogged ==
    \A j \in Jobs :
        (jobs[j].pc = "completed" /\ jobs[j].newVersionId = jobs[j].specVersionId) =>
            \E r \in regulation_impact_log :
                /\ r.status = "no_change"
                /\ r.new_spec_version_id = NULL
                /\ r.spec_version_id = jobs[j].specVersionId
                /\ r.regulation_ref = RegulationOf(j)

\* C12: a job that ended in failure has left an impact-log row with status
\* failed for its regulation and spec.
C12_FailureIsLogged ==
    \A j \in Jobs :
        jobs[j].pc = "failed" =>
            \E r \in regulation_impact_log :
                /\ r.status = "failed"
                /\ r.spec_version_id = jobs[j].specVersionId
                /\ r.regulation_ref = RegulationOf(j)

\* C13: a job naming a spec version that does not exist runs patchSpec at
\* most once: after its first attempt it is failed, never scheduled again.
C13_NotFoundIsNotRetried ==
    \A j \in EnqueuedJobs :
        jobs[j].specVersionId \notin VersionIds =>
            \/ jobs[j].attemptsMade = 0
            \/ jobs[j].attemptsMade = 1 /\ jobs[j].pc = "failed"

\* C14: isolation.  Once the handler has finished, every affected spec whose
\* own enqueue call did not reject has its job; the jobs of one handling are
\* for different specs; no job fails on a version another job made; a
\* completed job has made the active child of its own spec; and a step of one
\* job changes neither another job nor a row outside its own spec's lineage.
C14_IsolationState ==
    /\ consumer.outcome = "handled" =>
        \A i \in DOMAIN consumer.affectedSpecs :
            i \notin consumer.rejected =>
                \E j \in EnqueuedJobs :
                    jobs[j].specVersionId = consumer.affectedSpecs[i].specId
    /\ \A j, k \in EnqueuedJobs :
        jobs[j].specVersionId = jobs[k].specVersionId => j = k
    /\ \A j \in Jobs :
        jobs[j].failedReason = "conflict" => jobs[j].versionCreated # NULL
    /\ \A j \in Jobs :
        jobs[j].pc = "completed" =>
            /\ jobs[j].versionCreated \in VersionIds
            /\ Row(jobs[j].versionCreated).parent_id = jobs[j].specVersionId
            /\ Row(jobs[j].versionCreated).status = "active"

C14_IsolationStep ==
    \A j \in EnqueuedJobs :
        jobs'[j] # jobs[j] =>
            /\ \A k \in Jobs \ {j} : jobs'[k] = jobs[k]
            /\ \A v \in DOMAIN spec_versions' :
                (v \notin VersionIds \/ spec_versions'[v] # spec_versions[v]) =>
                    \/ v = jobs[j].specVersionId
                    \/ spec_versions'[v].parent_id = jobs[j].specVersionId

C14_Isolation == [](C14_IsolationState) /\ [][C14_IsolationStep]_vars

\* Of two affected specs, one's job failed on a missing spec version with all
\* its attempts, the other's completed with its new version.
C14_Witness ==
    \E j, k \in Jobs :
        /\ jobs[j].pc = "failed" /\ jobs[j].specVersionId \notin VersionIds
        /\ jobs[k].pc = "completed" /\ jobs[k].versionCreated \in VersionIds
        /\ consumer.outcome = "handled"

\* C15: when the handler has finished, each affected spec has exactly one job.
C15_OneJobPerAffectedSpec ==
    consumer.outcome = "handled" =>
        \A i \in DOMAIN consumer.affectedSpecs :
            Cardinality({j \in EnqueuedJobs :
                jobs[j].specVersionId = consumer.affectedSpecs[i].specId}) = 1

\* C16: at-least-once: the consumer is done only with events whose handling
\* completed; an event whose handler failed stays to be handled again.
C16_FailedHandlingIsNotConsumed ==
    consumer.offset >= 1 => consumer.outcome = "handled"

\* C17: no patch job is enqueued for a spec whose semantic score against the
\* regulation is below the threshold.
C17_LowScoreSpecsGetNoJob ==
    \A j \in EnqueuedJobs :
        consumer.scores[jobs[j].specVersionId] >= 65

----------------------------------------------------------------------------
(* Claims on the Impact Analyzer *)

Called == analysis.pc \in {"returned", "thrown"}
ResultIds == {analysis.outcome.value[i].specId : i \in DOMAIN analysis.outcome.value}

\* C18: when the regulation text is supplied, a candidate is in the result of
\* findAffectedSpecs if and only if its semantic score is >= 0.65, and every
\* specId in the result is a candidate's.
C18_RetainedIffScoreAtLeastThreshold ==
    (analysis.pc = "returned" /\ analysis.regulationContent \notin {NoContent, ""}) =>
        /\ \A id \in CandidateIds(analysis.candidates) :
            id \in ResultIds <=> analysis.ext.score[id] >= 65
        /\ ResultIds \subseteq CandidateIds(analysis.candidates)

\* C19: when the regulation text is omitted, findAffectedSpecs returns the
\* candidates of the structural query, all of them and in their order, each
\* with semanticScore 1.0, and computes no embedding.
C19_FailOpenWhenTextOmitted ==
    (Called /\ analysis.regulationContent = NoContent /\ ~analysis.ext.rpcError) =>
        /\ analysis.pc = "returned"
        /\ analysis.outcome.value =
              [i \in 1..Len(analysis.candidates) |->
                  [specId |-> analysis.candidates[i].spec_id, semanticScore |-> 100]]
        /\ analysis.outcome.embedCalls = 0

\* Two candidates returned without text, although one scores 0.40 and the
\* embedding of the other would throw.
C19_Witness ==
    /\ analysis.pc = "returned"
    /\ analysis.regulationContent = NoContent
    /\ Len(analysis.outcome.value) = 2
    /\ \E id \in CandidateIds(analysis.candidates) : analysis.ext.score[id] = 40
    /\ \E id \in CandidateIds(analysis.candidates) :
        analysis.ext.master[id] /\ analysis.ext.embedThrows[id]

\* C20: with the text supplied and the structural query and the embedding of
\* the text succeeding, a candidate whose embedding throws is excluded and the
\* others are still scored and returned.
C20_ScoringFailureIsolated ==
    (Called /\ analysis.regulationContent \notin {NoContent, ""}
        /\ ~analysis.ext.rpcError /\ ~analysis.ext.queryEmbedThrows) =>
        /\ analysis.pc = "returned"
        /\ \A id \in CandidateIds(analysis.candidates) :
            (analysis.ext.master[id] /\ ~analysis.ext.embedThrows[id]
                /\ analysis.ext.score[id] >= 65) => id \in ResultIds

----------------------------------------------------------------------------
(* Claims on the diff engine *)

\* C21: when the classifier's text cannot be parsed, the affected modules
\* are master_specification and security_blueprint, and patchSpec goes on
\* with that set.
C21_UnparsableClassifierFallsBack ==
    \A j \in Jobs :
        (jobs[j].classifierText # NoText /\ ~jobs[j].classifierText.parsed) =>
            /\ jobs[j].affectedModules = {"master_specification", "security_blueprint"}
            /\ jobs[j].pc \in {"detected", "generated", "applied", "version_created",
                              "completed"}

\* After an unparsable classifier text, a version patched in both modules.
C21_Witness ==
    \E j \in Jobs :
        /\ jobs[j].pc = "version_created"
        /\ ~jobs[j].classifierText.parsed
        /\ jobs[j].versionCreated \in VersionIds
        /\ {d.module : d \in jobs[j].allDiffs} = {"master_specification", "security_blueprint"}

\* C22: affectedModules, in a job's result, in the impact log and in the
\* events, holds nothing but ModuleKey values.
C22_UnknownModuleKeysDropped ==
    /\ \A j \in Jobs : jobs[j].affectedModules \subseteq ModuleKeys
    /\ \A r \in regulation_impact_log : r.affected_modules \subseteq ModuleKeys
    /\ \A e \in events : e.affectedModules \subseteq ModuleKeys

\* C23: content that does not have the diff-array schema gives no diff:
\* every diff that is applied, audited or published has its fields.
C23_MalformedDiffContentDiscarded ==
    /\ \A j \in Jobs : \A d \in jobs[j].allDiffs :
        d.clausePath # Undefined /\ d.before # Undefined /\ d.after # Undefined
    /\ \A d \in spec_diffs :
        d.clause_path # Undefined /\ d.before_value # Undefined /\ d.after_value # Undefined
    /\ \A e \in events : \A d \in e.diffs :
        d.clausePath # Undefined /\ d.before # Undefined /\ d.after # Undefined

\* The jobs that have just inserted their new version.
JustCreated == {j \in Jobs : jobs[j].pc = "version_created"}
OldModules(j) == Row(jobs[j].specVersionId).modules
NewModules(j) == Row(jobs[j].newVersionId).modules

\* C24: a module with no diff in the list has, in the new version, the
\* payload it has in the loaded version.
C24_ModulesWithoutDiffsCarriedOver ==
    /\ \A j \in JustCreated :
        \A k \in ModuleKeys \ {d.module : d \in jobs[j].allDiffs} :
            NewModules(j)[k] = OldModules(j)[k]
    /\ \A e \in events :
        \A k \in ModuleKeys \ {d.module : d \in e.diffs} :
            Row(NewVersionOf(e)).modules[k] = Row(OldVersionOf(e)).modules[k]

\* A new version whose security_blueprint changed and whose
\* master_specification, without a diff, did not.
C24_Witness ==
    \E j \in JustCreated :
        /\ {d.module : d \in jobs[j].allDiffs} = {"security_blueprint"}
        /\ NewModules(j)["security_blueprint"] # OldModules(j)["security_blueprint"]
        /\ NewModules(j)["master_specification"] = OldModules(j)["master_specification"]

\* C25: a module with diffs has, in the new version, the payload of the
\* loaded version except at the clause paths its diffs name.
C25_ChangesOnlyAtNamedPaths ==
    \A j \in JustCreated :
        \A k \in {d.module : d \in jobs[j].allDiffs} :
            \A f \in Fields \ {d.clausePath : d \in {x \in jobs[j].allDiffs : x.module = k}} :
                NewModules(j)[k][f] = OldModules(j)[k][f]

\* C26: a module whose apply answer cannot be parsed keeps the loaded
\* version's payload, and the other modules have the payloads their answers
\* gave: the version is created all the same.
C26_ApplyFailureKeepsOriginal ==
    \A j \in JustCreated :
        \A k \in DOMAIN jobs[j].applyResponses :
            NewModules(j)[k] = IF jobs[j].applyResponses[k].parsed
                               THEN jobs[j].applyResponses[k].value
                               ELSE OldModules(j)[k]

\* A new version with one module's answer unparsable and the other module changed.
C26_Witness ==
    \E j \in JustCreated :
        \E k, l \in DOMAIN jobs[j].applyResponses :
            /\ ~jobs[j].applyResponses[k].parsed
            /\ NewModules(j)[k] = OldModules(j)[k]
            /\ jobs[j].applyResponses[l].parsed
            /\ NewModules(j)[l] # OldModules(j)[l]

----------------------------------------------------------------------------
(* Claims on version labels *)

AllDigits(label, from, to) == from <= to /\ \A i \in from..to : IsDigit(label[i])

\* From position start on, label reads MAJOR.MINOR.PATCH with dots at i and j.
ShapeAt(label, start, i, j) ==
    /\ i < j /\ label[i] = "." /\ label[j] = "."
    /\ AllDigits(label, start, i - 1)
    /\ AllDigits(label, i + 1, j - 1)
    /\ AllDigits(label, j + 1, Len(label))

\* vMAJOR.MINOR.PATCH, and the same with the v left out.
StrictShape(label) ==
    label # <<>> /\ label[1] = "v" /\ \E i, j \in DOMAIN label : ShapeAt(label, 2, i, j)
BareShape(label) == \E i, j \in DOMAIN label : ShapeAt(label, 1, i, j)

\* new is vMAJOR.(MINOR+1).0 for the MAJOR and MINOR old has from position start.
IsMinorBump(new, old, start) ==
    \E i, j \in DOMAIN old :
        /\ ShapeAt(old, start, i, j)
        /\ LET major == SubSeq(old, start, i - 1)
               n == Len(major)
               minor == SubSeq(new, n + 3, Len(new) - 2)
           IN  /\ Len(new) >= n + 5
               /\ new[1] = "v" /\ SubSeq(new, 2, n + 1) = major /\ new[n + 2] = "."
               /\ SubSeq(new, Len(new) - 1, Len(new)) = <<".", "0">>
               /\ AllDigits(minor, 1, Len(minor)) /\ minor[1] # "0"
               /\ ParseInt(minor) = ParseInt(SubSeq(old, i + 1, j - 1)) + 1

Children == {c \in VersionIds : Row(c).parent_id \in VersionIds}
LoadedLabel(c) ==
    IF Row(Row(c).parent_id).version_label = <<"null">>
    THEN <<"v", "1", ".", "0", ".", "0">>
    ELSE Row(Row(c).parent_id).version_label

\* C27, as stated: the label of a new version is vMAJOR.(MINOR+1).0 when the
\* loaded version's label is vMAJOR.MINOR.PATCH, and that label with .1
\* appended when it is anything else.
C27_BumpOfStrictShape ==
    \A c \in Children :
        IF StrictShape(LoadedLabel(c))
        THEN IsMinorBump(Row(c).version_label, LoadedLabel(c), 2)
        ELSE Row(c).version_label = LoadedLabel(c) \o <<".", "1">>

\* C27, amended: the v is optional.  The label of a new version is
\* vMAJOR.(MINOR+1).0 when the loaded version's label (v1.0.0 if it has none)
\* is vMAJOR.MINOR.PATCH or MAJOR.MINOR.PATCH, and that label with .1 appended
\* when it is anything else; every patch gets a label.
C27_BumpMinorVersion ==
    \A c \in Children :
        IF StrictShape(LoadedLabel(c))
        THEN IsMinorBump(Row(c).version_label, LoadedLabel(c), 2)
        ELSE IF BareShape(LoadedLabel(c))
        THEN IsMinorBump(Row(c).version_label, LoadedLabel(c), 1)
        ELSE Row(c).version_label = LoadedLabel(c) \o <<".", "1">>

\* 1.9.1 patched to v1.10.0: the v added, the minor carried, the patch reset.
C27_Witness ==
    \E c \in Children :
        /\ Row(Row(c).parent_id).version_label = <<"1", ".", "9", ".", "1">>
        /\ Row(c).version_label = <<"v", "1", ".", "1", "0", ".", "0">>

----------------------------------------------------------------------------
(* Claims on the Version Store's rows and the dispatch loop *)

\* C28: a spec_versions row is never deleted, and no step writes a field of
\* an existing row other than its status, which only goes from active to
\* superseded.
C28_RowsImmutableExceptStatus ==
    [][\A v \in DOMAIN spec_versions :
         /\ v \in DOMAIN spec_versions'
         /\ [spec_versions'[v] EXCEPT !.status = spec_versions[v].status] = spec_versions[v]
         /\ spec_versions'[v].status # spec_versions[v].status
                => spec_versions[v].status = "active"
                   /\ spec_versions'[v].status = "superseded"]_vars

\* C29: a patch job that created a version and completed has exactly one
\* regulation_impact_log row for its regulation and the version it evaluated.
C29_OneRowPerEvaluation ==
    \A j \in Jobs :
        (jobs[j].pc = "completed" /\ jobs[j].versionCreated # NULL) =>
            Cardinality({r \in regulation_impact_log :
                            /\ r.regulation_ref = RegulationOf(j)
                            /\ r.spec_version_id = jobs[j].specVersionId}) = 1

\* What eachMessage makes of a message.
Dispatched(message, outcome) ==
    IF ~message.value.present THEN outcome = "no_value"
    ELSE IF ~message.value.json THEN outcome = "parse_error"
    ELSE IF message.topic \notin {"regulation.new", "regulation.updated"}
    THEN outcome = "no_handler"
    ELSE outcome \in {"handled", "handler_error"}

\* C30: the dispatch loop never stops on a handler error, an unparsable
\* message or a message without a handler: each delivered message is done
\* with in its turn, with the outcome of its kind, and every delivered
\* message is dispatched in the end.
C30_DispatchLoopSurvives ==
    /\ [](/\ consumer.pc \in {"idle", "handling"}
          /\ Len(consumer.log) = consumer.offset
          /\ \A i \in DOMAIN consumer.log :
                Dispatched(consumer.messages[i], consumer.log[i]))
    /\ <>[](consumer.pc = "idle" /\ consumer.offset = Len(consumer.messages))

\* A handler error, an unparsable message and a message without a handler,
\* and then a message that is handled.
C30_Witness ==
    /\ consumer.offset = 4
    /\ consumer.log = <<"handler_error", "parse_error", "no_handler", "handled">>

----------------------------------------------------------------------------
(* Claims on the compliance job flow *)

\* C31: a compliance job whose attempts are used up has its outcome record
\* at status failed, with the message of the last error.
C31_ExhaustedJobRecordedFailed ==
    \A id \in DOMAIN compliance_queue :
        compliance_queue[id].state = "failed" =>
            /\ compliance_jobs[id].status = "failed"
            /\ compliance_jobs[id].error_message = compliance_queue[id].failedReason

\* C35: completed and failed are terminal in the outcome record: a record
\* with one of them keeps it.
C35_TerminalStatusKept ==
    [][\A id \in DOMAIN compliance_jobs :
         compliance_jobs[id].status \in {"completed", "failed"}
            => compliance_jobs'[id].status = compliance_jobs[id].status]_vars

\* C37: the jobs accepted for a workspace (this month's earlier ones
\* included) never exceed the limit of its plan.
C37_AcceptedWithinPlanLimit ==
    Cardinality(DOMAIN compliance_queue) <= PlanLimit(workspaces.plan)

----------------------------------------------------------------------------
(* Claims on re-application and on the stamping of diffs *)

\* A job that returned because every affected module's diff list was empty.
NoOp(j) ==
    /\ jobs[j].pc = "completed"
    /\ jobs[j].affectedModules # {}
    /\ jobs[j].allDiffs = {}

C32_NoOpState ==
    \A j \in Jobs :
        NoOp(j) =>
            /\ jobs[j].newVersionId = jobs[j].specVersionId
            /\ jobs[j].newVersionNumber = Row(jobs[j].specVersionId).version_number

C32_NoOpStep ==
    \A j \in Jobs :
        (jobs[j].pc = "detected" /\ jobs'[j].pc = "completed" /\ jobs'[j].allDiffs = {})
            => /\ spec_versions' = spec_versions
               /\ spec_diffs' = spec_diffs

\* C32: a patch whose diff generation yields an empty list for every affected
\* module returns the loaded version's id and number, and the step that
\* returns leaves the version chain as it was: so does a second application
\* of a regulation that finds nothing more to change.
C32_NoOpIdempotence == [](C32_NoOpState) /\ [][C32_NoOpStep]_vars

\* The regulation was applied once (a second version) and applied again to
\* that version with no diff: the chain is still the two versions.
C32_Witness ==
    /\ jobs[1].pc = "completed" /\ jobs[1].newVersionId # jobs[1].specVersionId
    /\ jobs[2].regulation = jobs[1].regulation
    /\ jobs[2].specVersionId = jobs[1].newVersionId
    /\ NoOp(2)
    /\ VersionIds = {1, jobs[1].newVersionId}
    /\ Row(jobs[1].newVersionId).status = "active"

C38_StampedState ==
    \A j \in Jobs : \A d \in jobs[j].allDiffs :
        /\ d.module \in jobs[j].affectedModules
        /\ d.regulationTrigger = RegulationOf(j)

C38_StampedStep ==
    \A r \in spec_diffs' \ spec_diffs :
        \E j \in Jobs :
            /\ jobs[j].pc = "version_created"
            /\ r.to_version_id = jobs[j].newVersionId
            /\ r.module \in jobs[j].affectedModules
            /\ r.regulation_trigger = RegulationOf(j)

\* C38: every diff generateModuleDiffs returns for a module carries that
\* module and the job's regulation, whatever the generated content says, and
\* so does every spec_diffs row a job writes.
C38_DiffsCarryModuleAndRegulation == [](C38_StampedState) /\ [][C38_StampedStep]_vars

\* Audit rows written from generated diffs that named another regulation.
C38_Witness ==
    /\ jobs[1].pc = "completed"
    /\ jobs[1].affectedModules = ModuleKeys
    /\ \A k \in ModuleKeys :
        \E r \in spec_diffs : r.module = k /\ r.regulation_trigger = Regulations[1]

----------------------------------------------------------------------------
(* Claims on the bus client under concurrent calls *)

\* C33: at most one producer is created, and producer.send is never invoked
\* on a producer whose connect() has not completed.
C33_SendOnlyWhenConnected ==
    /\ Len(kafka.producers) <= 1
    /\ \A s \in kafka.sent : s.connected

\* C34: at most one consumer is created, connected, subscribed or run per
\* groupId.
C34_OneConsumerPerGroup ==
    \A g \in GroupIds :
        Cardinality({i \in DOMAIN kafka.created : kafka.created[i].groupId = g}) <= 1

----------------------------------------------------------------------------
(* Claims on the PR follow-up and on ingestion *)

\* The PR jobs of version v that may still run an attempt.
PendingPRJobs(v) == {q \in pr_queue : q.specVersion.id = v /\ q.state = "waiting"}

\* C36: once the PR jobs of a version have run (no attempt is left), a pull
\* request opened for the version has its URL on the version's row and the
\* version's impact-log rows are at pr_created.
C36_OpenedPRIsRecorded ==
    \A p \in github.pulls :
        LET v == p.head.version IN
        PendingPRJobs(v) = {} =>
            /\ Row(v).github_pr_url # NULL
            /\ \A r \in regulation_impact_log :
                r.new_spec_version_id = v => r.status = "pr_created"

\* C39: every IngestionResult returned has succeeded + failed = total.
C39_SucceededPlusFailedIsTotal ==
    ingestion.pc = "returned" =>
        ingestion.result.succeeded + ingestion.result.failed = ingestion.result.total

====
